---- MODULE Spec2Model ----
(***************************************************************************)
(* RealtorProvider (providers/RealtorProvider.ts) and its rate limiter     *)
(* (lib/rateLimiter.ts): concurrent search() calls of one provider, each   *)
(* walking its pages through fetchPage's retry loop, all of them drawing   *)
(* tokens from the one TokenBucketLimiter of the provider.                 *)
(*                                                                         *)
(* Node runs the code single-threaded: an action below is the code that    *)
(* runs between two awaits.  Time is the value of Date.now() in ms since   *)
(* the limiter was constructed.                                            *)
(*                                                                         *)
(* tokens is kept in units of 1/RefillRateDen token, so that the float     *)
(* arithmetic of the limiter (rate 0.5 token per ms, integer ms clock) is  *)
(* exact integer arithmetic here.                                          *)
(***************************************************************************)
EXTENDS Integers, Sequences, FiniteSets, TLC

(* ----------------------------- bounds -------------------------------- *)
NumCallers == 2           \* concurrent callers of waitForToken() (SpecLimiter)
MaxCalls == 4             \* waitForToken() calls made in one behaviour (SpecLimiter)
Capacity == 1             \* capacity of the bucket, in tokens
MaxTime == 3              \* the clock ticks ms by ms up to here
MaxRetriesCfg == 2        \* REALTOR_MAX_RETRIES is drawn from 0..MaxRetriesCfg
MaxPages == 2             \* largest total_pages an upstream body announces
MaxPageLen == 2           \* most listings in one page body
MaxRetryAfter == 1        \* largest Retry-After header, in seconds
PageStride == 10          \* listing ids of page p start after p * PageStride
MaxCompared == 2          \* query objects hashed in one behaviour (SpecHash)
MaxLookups == 4           \* getRateLimiter() calls made in one behaviour (SpecRegistry)
MaxAttempts == 6          \* failed attempts of one fetchPage call followed by a sleep (SpecBackoff)
NumProviders == 2         \* providers registered with the PropertyService (SpecService)
NumSearches == 2          \* searches for the same query that overlap (SpecRace)

(* ------------------------ program constants -------------------------- *)
RefillRateNum == 1        \* refillRate = RefillRateNum / RefillRateDen = 0.5 token per ms
RefillRateDen == 2
InitialBackoffMs == 500
BackoffCapMs == 8000
JitterMs == 200           \* Math.random() * 200
MsPerSecond == 1000
MaxCallsPerMin == 30      \* REALTOR_MAX_CALLS_PER_MIN || '30'
TtlHours == 24            \* REALTOR_TTL_HOURS
MsPerHour == 3600000      \* 1000 * 60 * 60

Callers == 1..NumCallers
\* the Retry-After header of a response: none, the decimal text of an integer
\* number of seconds, or an HTTP-date, given by the ms it lies after the moment
\* the response is handled (negative: in the past)
NoHeader == [kind |-> "none", value |-> 0]
Seconds(n) == [kind |-> "seconds", value |-> n]
HttpDate(offsetMs) == [kind |-> "date", value |-> offsetMs]
NoStatus == 0             \* fetch() raised instead of answering

VARIABLES
    now,          \* Date.now(), ms since the limiter was constructed
    tokens,       \* TokenBucketLimiter.tokens, in 1/RefillRateDen token
    lastRefill,   \* TokenBucketLimiter.lastRefill
    afterRefill,  \* history: tokens as the last refill() left it
    granted,      \* history: waitForToken() calls that have returned
    callerPc,     \* SpecLimiter: "idle" or "suspended", per caller
    callerWake,   \* SpecLimiter: due time of the caller's setTimeout
    calls,        \* SpecLimiter: waitForToken() calls made so far
    maxRetries,   \* RealtorProvider.maxRetries
    pc,           \* where search() is suspended
    attempt,      \* fetchPage: loop variable
    lastError,    \* fetchPage: lastError
    wakeAt,       \* due time of the pending setTimeout of the search
    currentPage,  \* search: currentPage
    totalPages,   \* search: totalPages
    allFeatures,  \* search: allFeatures
    pageData,     \* the body the last fetchPage resolved with
    outcome,      \* how search() settled
    cache,        \* realtorRawCache: the payload stored under the query's hash
    httpRequests, \* history: fetch() calls of the current fetchPage call
    tokensTaken,  \* history: waitForToken() returns of the current fetchPage call
    answered,     \* history: fetch() calls of the current fetchPage call that have settled
    kindsSeen,    \* history: the kinds of outcome those fetch() calls had
    lastAnswer,   \* history: what the last of them produced
    backoffUntil, \* history: due time of the last backoff sleep of the current fetchPage call
    params,       \* the query object search() was called with
    cacheOps,     \* history: calls made on realtorRawCache, and what findUnique found
    pageLog,      \* history: the pages requested so far, in the order of their first request
    digests,      \* SpecHash: the query objects hashed so far, each with its digest
    limiters,     \* SpecRegistry: ProviderRateLimiter.limiters
    handles,      \* SpecRegistry: history of what the getRateLimiter() calls returned
    lastWait,     \* history: the waitTime or delay fetchPage computed for its last sleep
    service,      \* SpecService: one PropertyService.searchProperties() call
    pageCall,     \* SpecPage: the page body processed, with what was made of it
    backoffLog,   \* SpecBackoff: the sleeps of one fetchPage call, attempt by attempt
    normalized,   \* SpecTransform: the listing transformListing was called with, and its result
    race          \* SpecRace: searches for one query that overlap, and the row of its hash

limiterVars == <<tokens, lastRefill, afterRefill, granted>>
callerVars == <<callerPc, callerWake, calls>>
searchVars == <<maxRetries, pc, attempt, lastError, wakeAt, currentPage, totalPages,
                allFeatures, pageData, outcome, cache, httpRequests, tokensTaken,
                answered, kindsSeen, lastAnswer, backoffUntil, params, cacheOps, pageLog,
                lastWait>>
hashVars == <<digests>>
registryVars == <<limiters, handles>>
serviceVars == <<service>>
pageVars == <<pageCall>>
backoffVars == <<backoffLog>>
transformVars == <<normalized>>
raceVars == <<race>>
vars == <<now, limiterVars, callerVars, searchVars, hashVars, registryVars,
         serviceVars, pageVars, backoffVars, transformVars, raceVars>>

Min(a, b) == IF a <= b THEN a ELSE b
Max(a, b) == IF a >= b THEN a ELSE b
CeilDiv(a, b) == -((-a) \div b)         \* Math.ceil(a / b), b > 0

(* --------------------------- TokenBucketLimiter ------------------------ *)
OneToken == RefillRateDen
capacity == Capacity * OneToken

\* refill() without Math.min(this.capacity, ...)
RefillUncapped(tok, last, t) ==
    LET elapsed == t - last
        tokensToAdd == elapsed * RefillRateNum
    IN  IF tokensToAdd > 0
        THEN <<tok + tokensToAdd, t>>
        ELSE <<tok, last>>

\* refill(): the bucket after a refill at time t, as <<tokens, lastRefill>>
Refill(tok, last, t) ==
    LET elapsed == t - last
        tokensToAdd == elapsed * RefillRateNum
    IN  IF tokensToAdd > 0
        THEN <<Min(capacity, tok + tokensToAdd), t>>
        ELSE <<tok, last>>

\* waitTime = Math.ceil((1 - tokens) / refillRate)
WaitTime(tok) == CeilDiv(OneToken - tok, RefillRateNum)

\* waitForToken() from its call to its return or its await, after the refill
\* gave bucket r: TRUE when the token was consumed at once
TokenAvailable(r) == r[1] >= OneToken

\* waitForToken() after its await: refill again, then consume
ConsumeAfterWait(tok, last, t) ==
    LET r == Refill(tok, last, t)
    IN  <<r[1] - OneToken, r[2]>>

(* ---------------- SpecLimiter: callers of one limiter ------------------ *)
InitLimiterState ==
    /\ now = 0
    /\ tokens = capacity
    /\ lastRefill = 0
    /\ afterRefill = capacity
    /\ granted = 0

InitCallers ==
    /\ callerPc = [c \in Callers |-> "idle"]
    /\ callerWake = [c \in Callers |-> 0]
    /\ calls = 0

\* a caller calls waitForToken(): lines 32-43
CallWaitForToken(c) ==
    /\ callerPc[c] = "idle"
    /\ calls < MaxCalls
    /\ calls' = calls + 1
    /\ LET r == Refill(tokens, lastRefill, now)
       IN  /\ lastRefill' = r[2]
           /\ afterRefill' = r[1]
           /\ IF TokenAvailable(r)
              THEN /\ tokens' = r[1] - OneToken
                   /\ granted' = granted + 1
                   /\ UNCHANGED <<callerPc, callerWake>>
              ELSE /\ tokens' = r[1]
                   /\ granted' = granted
                   /\ callerPc' = [callerPc EXCEPT ![c] = "suspended"]
                   /\ callerWake' = [callerWake EXCEPT ![c] = now + WaitTime(r[1])]
    /\ UNCHANGED <<now, searchVars, hashVars, registryVars, serviceVars, pageVars, backoffVars, transformVars, raceVars>>

\* the caller's timer fires, at its due time or later: lines 45-47
ResumeWaitForToken(c) ==
    /\ callerPc[c] = "suspended"
    /\ now >= callerWake[c]
    /\ LET r == ConsumeAfterWait(tokens, lastRefill, now)
       IN  /\ tokens' = r[1]
           /\ lastRefill' = r[2]
    /\ afterRefill' = Refill(tokens, lastRefill, now)[1]
    /\ granted' = granted + 1
    /\ callerPc' = [callerPc EXCEPT ![c] = "idle"]
    /\ UNCHANGED <<now, callerWake, calls, searchVars, hashVars, registryVars, serviceVars, pageVars, backoffVars, transformVars, raceVars>>

\* a millisecond passes
Tick ==
    /\ now < MaxTime
    /\ now' = now + 1
    /\ UNCHANGED <<limiterVars, callerVars, searchVars, hashVars, registryVars, serviceVars, pageVars, backoffVars, transformVars, raceVars>>

(* ------------------------ the upstream's answers ----------------------- *)
\* the upstream's listings of a page: listing i of page p is p * PageStride + i,
\* and a body holds the first n of them
PageListings(page, n) == [i \in 1..n |-> page * PageStride + i]
NetworkErrors == {"ECONNRESET", "ETIMEDOUT"}
ErrorStatuses == {404, 500}

\* what one fetch() call produces: a response with its status, its Retry-After
\* header and its JSON body, or an exception
Answer(st, ra, ls, tp, ex) ==
    [status |-> st, retryAfter |-> ra, listings |-> ls, total_pages |-> tp, cause |-> ex]

OkAnswers(page) ==
    {Answer(200, NoHeader, PageListings(page, n), tp, "none") : n \in 0..MaxPageLen, tp \in 0..MaxPages}
SecondsSamples == {-1, 0, MaxRetryAfter}
DateOffsetSamples == {-1500, 1}
RetryAfterHeaders ==
    {NoHeader} \cup {Seconds(n) : n \in SecondsSamples}
               \cup {HttpDate(d) : d \in DateOffsetSamples}
RateLimitAnswers == {Answer(429, ra, <<>>, 0, "none") : ra \in RetryAfterHeaders}
ErrorAnswers == {Answer(st, NoHeader, <<>>, 0, "none") : st \in ErrorStatuses}
Exceptions == {Answer(NoStatus, NoHeader, <<>>, 0, ex) : ex \in NetworkErrors}
Answers(page) == OkAnswers(page) \cup RateLimitAnswers \cup ErrorAnswers \cup Exceptions

IsOk(r) == r.status >= 200 /\ r.status <= 299      \* response.ok
IsException(r) == r.status = NoStatus
Kind(r) ==
    IF IsException(r) THEN "exception"
    ELSE IF r.status = 429 THEN "429"
    ELSE IF IsOk(r) THEN "ok"
    ELSE "status"

\* the Error objects fetchPage throws or catches
NoError == [kind |-> "none", status |-> NoStatus, cause |-> "none"]
RateLimitExhausted == [kind |-> "429 and max retries reached", status |-> 429, cause |-> "none"]
StatusError(st) == [kind |-> "RapidAPI responded with", status |-> st, cause |-> "none"]
NetworkError(ex) == [kind |-> "network", status |-> NoStatus, cause |-> ex]
FailedToFetch == [kind |-> "Failed to fetch page", status |-> NoStatus, cause |-> "none"]

\* Math.random() * 200, as setTimeout rounds it: the two ends of the range
JitterSamples == {0, JitterMs - 1}

\* line 233, without the jitter
ExponentialBackoff(att) == Min(BackoffCapMs, InitialBackoffMs * (2 ^ att))
\* lines 222-235 with the header ignored: always the exponential backoff
RateLimitWaitIgnoringHeader(r, att, j) == ExponentialBackoff(att) + j
\* lines 222-235: the wait after a 429, j the jitter drawn; parseInt of the
\* header, or for a date Math.max(0, Math.ceil((date - now) / 1000)), times 1000
RateLimitWait(r, att, j) ==
    IF r.retryAfter.kind = "seconds"
    THEN r.retryAfter.value * MsPerSecond
    ELSE IF r.retryAfter.kind = "date"
    THEN Max(0, CeilDiv(r.retryAfter.value, MsPerSecond)) * MsPerSecond
    ELSE ExponentialBackoff(att) + j
\* line 260
CatchDelay(att) == InitialBackoffMs * (2 ^ att)

\* transformListing, as far as the listing's identity goes
TransformListing(listing) == [listing_id |-> listing, source |-> "realtor16"]
\* a null in the array of listings: transformListing reads listing.latitude
\* of it and throws
NullListing == 0
TransformThrows(listing) == listing = NullListing
\* listings.map(...) letting one throwing listing fail the whole page
TransformAllOrNothing(ls) ==
    IF \E i \in 1..Len(ls) : TransformThrows(ls[i])
    THEN <<>>
    ELSE [i \in 1..Len(ls) |-> TransformListing(ls[i])]
\* lines 122-129: listings.map(try transformListing catch null).filter(not null)
TransformAll(ls) ==
    LET kept == SelectSeq(ls, LAMBDA l : ~TransformThrows(l))
    IN  [i \in 1..Len(kept) |-> TransformListing(kept[i])]

EmptyBody == Answer(200, NoHeader, <<>>, 0, "none")
NoEntry == [present |-> FALSE, payload |-> <<>>, createdAt |-> 0]
Pending == [kind |-> "pending", value |-> <<>>, error |-> NoError]
Resolved(v) == [kind |-> "resolved", value |-> v, error |-> NoError]
RejectedAsEmpty(e) == [kind |-> "resolved", value |-> <<>>, error |-> NoError]
Rejected(e) == [kind |-> "rejected", value |-> <<>>, error |-> e]
InvalidSearchParameters == [kind |-> "Invalid search parameters", status |-> NoStatus, cause |-> "none"]
\* what a call on realtorRawCache rejects with when the store fails
CacheError(op) == [kind |-> "cache store", status |-> NoStatus, cause |-> op]

(* ------------------------------ the cache ------------------------------ *)
\* JSON.stringify(allFeatures), the payload of a cache row
StringifyFeatures(features) ==
    [i \in 1..Len(features) |->
        <<"listing_id", features[i].listing_id, "source", features[i].source>>]
\* JSON.parse(cached.payload)
ParseFeatures(payload) ==
    [i \in 1..Len(payload) |-> [listing_id |-> payload[i][2], source |-> payload[i][4]]]

TtlMs == TtlHours * MsPerHour
\* line 72 with <= for <
IsFreshInclusive(ageMs) == ageMs <= TtlMs
\* line 72 always false: every row found is deleted
IsFreshNever(ageMs) == FALSE
\* lines 70-72: ageInHours < this.ttlHours, for an age in ms
IsFresh(ageMs) == ageMs < TtlMs

\* history: what findUnique found at time t, by the age of the row
Found(row, t) ==
    IF ~row.present THEN "absent"
    ELSE IF (t - row.createdAt) < TtlHours * MsPerHour THEN "fresh"
    ELSE "stale"

\* the rows the store can hold for the query when search() is called: none, or
\* the row an earlier search wrote, TtlMs - 1 ms ago or just now; the
\* listings of an earlier search are those of page 0, which the upstream
\* serves no more
CreatedAtSamples == {1 - TtlMs, 0}
CachedRows ==
    {NoEntry} \cup
    {[present |-> TRUE,
      payload |-> StringifyFeatures(TransformAll(PageListings(0, n))),
      createdAt |-> c] : n \in 1..MaxPageLen, c \in CreatedAtSamples}
\* a delete that leaves the row where it is
RowAfterDeleteKept(row) == row
\* realtorRawCache.delete({ where: { hash } }) on the row of the hash
RowAfterDelete(row) == NoEntry
NoCacheOps == [reads |-> 0, deletes |-> 0, upserts |-> 0, found |-> "none"]

(* --------------------------- query objects ----------------------------- *)
\* A JavaScript value, as far as JSON.stringify and the zod schema tell values
\* apart: a string, a number (its decimal text, and whether it is an
\* integer), an array (its items) or an object (its members, in insertion
\* order, each a <<key, value>> pair).
Str(s) == [kind |-> "string", text |-> s, int |-> FALSE, items |-> <<>>, members |-> <<>>]
Num(t) == [kind |-> "number", text |-> t, int |-> FALSE, items |-> <<>>, members |-> <<>>]
IntNum(t) == [kind |-> "number", text |-> t, int |-> TRUE, items |-> <<>>, members |-> <<>>]
Arr(its) == [kind |-> "array", text |-> "", int |-> FALSE, items |-> its, members |-> <<>>]
Obj(ms) == [kind |-> "object", text |-> "", int |-> FALSE, items |-> <<>>, members |-> ms]

Range(f) == {f[i] : i \in DOMAIN f}
Get(obj, key) == (CHOOSE m \in Range(obj) : m[1] = key)[2]     \* obj[key]

\* SearchParamsSchema.safeParse(q).success
SearchParamsSchemaPassthrough(q) == TRUE
SearchParamsSchema(q) ==
    \A i \in 1..Len(q) :
        LET key == q[i][1]
            v == q[i][2]
        IN  CASE key = "bbox" ->
                    /\ v.kind = "array"
                    /\ Len(v.items) = 4
                    /\ \A j \in 1..Len(v.items) : v.items[j].kind = "number"
              [] key \in {"city", "state", "zip"} -> v.kind = "string"
              [] key = "radius" -> v.kind = "number" /\ v.int
              [] OTHER -> TRUE                       \* polygon: z.any(); other keys are stripped

\* the order of Array.prototype.sort() on the keys that occur: UTF-16 code units
KeyRank == [bbox |-> 1, city |-> 2, polygon |-> 3, radius |-> 4, state |-> 5, zip |-> 6]
\* Object.keys(params).sort().reduce(...): the top-level members, by key
SortedParams(q) ==
    [i \in 1..Len(q) |->
        CHOOSE m \in Range(q) : Cardinality({n \in Range(q) : KeyRank[n[1]] < KeyRank[m[1]]}) = i - 1]

\* JSON.stringify(v), as the sequence of the tokens of its text: the members of
\* an object are written in their enumeration order
RECURSIVE StringifyValue(_)
RECURSIVE StringifyItems(_)
RECURSIVE StringifyMembers(_)
StringifyItems(its) ==
    IF Len(its) = 0 THEN <<>>
    ELSE IF Len(its) = 1 THEN StringifyValue(its[1])
    ELSE StringifyValue(its[1]) \o <<",">> \o StringifyItems(Tail(its))
StringifyMembers(ms) ==
    IF Len(ms) = 0 THEN <<>>
    ELSE IF Len(ms) = 1 THEN <<"\"", ms[1][1], "\"", ":">> \o StringifyValue(ms[1][2])
    ELSE <<"\"", ms[1][1], "\"", ":">> \o StringifyValue(ms[1][2]) \o <<",">>
            \o StringifyMembers(Tail(ms))
StringifyValue(v) ==
    CASE v.kind = "string" -> <<"\"", v.text, "\"">>
      [] v.kind = "number" -> <<v.text>>
      [] v.kind = "array" -> <<"[">> \o StringifyItems(v.items) \o <<"]">>
      [] v.kind = "object" -> <<"{">> \o StringifyMembers(v.members) \o <<"}">>

\* crypto.createHash('sha256').update(text).digest('hex'): SHA-256 is taken to
\* be free of collisions, so a digest is identified by the text it was made of
Sha256Hex(text) == <<"sha256">> \o text

\* computeHash(params)
computeHash(q) == Sha256Hex(StringifyValue(Obj(SortedParams(q))))

\* a value without the order of the members of its objects
RECURSIVE Unordered(_)
Unordered(v) ==
    [kind |-> v.kind, text |-> v.text, int |-> v.int,
     items |-> [i \in 1..Len(v.items) |-> Unordered(v.items[i])],
     members |-> {<<m[1], Unordered(m[2])>> : m \in Range(v.members)}]
\* p and q hold the same key/value pairs
SameParameters(p, q) == Unordered(Obj(p)) = Unordered(Obj(q))
\* the same, for the top-level members only: the values are equal as written
SameTopLevel(p, q) == Range(p) = Range(q)

\* the values of the queries
BboxValue == Arr(<<Num("-80.9"), Num("35.1"), Num("-80.7"), Num("35.4")>>)
ShortBboxValue == Arr(<<IntNum("1"), IntNum("2"), IntNum("3")>>)
ZipValue == Str("28202")
PolygonValue == Obj(<<<<"type", Str("Polygon")>>, <<"coordinates", Arr(<<>>)>>>>)
PolygonValueReordered == Obj(<<<<"coordinates", Arr(<<>>)>>, <<"type", Str("Polygon")>>>>)

\* SpecHash: the members a query object is built of, and the query objects
HashMembers ==
    {<<"bbox", BboxValue>>, <<"zip", ZipValue>>,
     <<"polygon", PolygonValue>>, <<"polygon", PolygonValueReordered>>}
HashKeys == {m[1] : m \in HashMembers}
HashQueries ==
    {q \in UNION {[1..n -> HashMembers] : n \in 0..Cardinality(HashKeys)} :
        \A i, j \in 1..Len(q) : i # j => q[i][1] # q[j][1]}

\* Spec: the query objects search() is called with
ValidQuery == <<<<"bbox", BboxValue>>>>
InvalidQueries ==
    {<<<<"bbox", ShortBboxValue>>>>,                        \* a tuple of the wrong length
     <<<<"zip", IntNum("28202")>>>>,                        \* a string field holding a number
     <<<<"zip", ZipValue>>, <<"radius", Str("far")>>>>,      \* a non-numeric radius
     <<<<"zip", ZipValue>>, <<"radius", Num("1.5")>>>>}      \* a radius that is no integer
\* queries the schema accepts that name no place fetchPage can ask for
NoLocalityQueries ==
    {<<>>,                                                  \* an empty object
     <<<<"polygon", PolygonValue>>>>,                        \* a polygon alone
     <<<<"city", Str("Charlotte")>>>>}                       \* a city without its state
SearchQueries == {ValidQuery} \cup InvalidQueries \cup NoLocalityQueries

\* params[key] is truthy: the key is there and is not the empty string
Truthy(q, key) ==
    \E m \in Range(q) : m[1] = key /\ ~(m[2].kind = "string" /\ m[2].text = "")
\* fetchPage building a URL for whatever it is given
HasLocalityAlways(q) == TRUE
\* lines 176-195: params.bbox, else params.city && params.state, else params.zip
HasLocality(q) ==
    \/ Truthy(q, "bbox")
    \/ Truthy(q, "city") /\ Truthy(q, "state")
    \/ Truthy(q, "zip")

(* ----------------------- Spec: one search() ---------------------------- *)
InitSearch ==
    /\ maxRetries \in 0..MaxRetriesCfg
    /\ pc = "idle"
    /\ attempt = 0
    /\ lastError = NoError
    /\ wakeAt = 0
    /\ currentPage = 1
    /\ totalPages = 1
    /\ allFeatures = <<>>
    /\ pageData = EmptyBody
    /\ outcome = Pending
    /\ cache \in CachedRows
    /\ httpRequests = 0
    /\ tokensTaken = 0
    /\ answered = 0
    /\ kindsSeen = {}
    /\ lastAnswer = EmptyBody
    /\ backoffUntil = 0
    /\ lastWait = 0
    /\ params \in SearchQueries
    /\ params \in NoLocalityQueries => cache = NoEntry    \* no search ever wrote a row for them
    /\ cacheOps = NoCacheOps
    /\ pageLog = <<>>

\* await this.limiter.waitForToken(), up to its return or its await;
\* taken is the number of tokens this fetchPage call holds so far
AcquireToken(taken) ==
    LET r == Refill(tokens, lastRefill, now)
    IN  /\ lastRefill' = r[2]
        /\ afterRefill' = r[1]
        /\ IF TokenAvailable(r)
           THEN /\ tokens' = r[1] - OneToken
                /\ granted' = granted + 1
                /\ tokensTaken' = taken + 1
                /\ wakeAt' = wakeAt
                /\ pc' = "granted"
           ELSE /\ tokens' = r[1]
                /\ granted' = granted
                /\ tokensTaken' = taken
                /\ wakeAt' = now + WaitTime(r[1])
                /\ pc' = "suspended"

\* fetchPage(params, page) from its call to the first await of its loop
BeginFetchPage ==
    /\ attempt' = 0
    /\ lastError' = NoError
    /\ httpRequests' = 0
    /\ answered' = 0
    /\ kindsSeen' = {}
    /\ lastAnswer' = EmptyBody
    /\ backoffUntil' = 0
    /\ lastWait' = 0
    /\ AcquireToken(0)

\* fetchPage(params, page) returning null at line 194, before the loop and its
\* waitForToken(); search() breaks out of its loop (lines 90-93), skips the
\* upsert for want of features and returns []
FetchPageNull ==
    /\ attempt' = 0
    /\ lastError' = NoError
    /\ httpRequests' = 0
    /\ answered' = 0
    /\ kindsSeen' = {}
    /\ lastAnswer' = EmptyBody
    /\ backoffUntil' = 0
    /\ lastWait' = 0
    /\ tokensTaken' = 0
    /\ UNCHANGED <<limiterVars, wakeAt>>
    /\ pc' = "resolved"
    /\ outcome' = Resolved(<<>>)

\* search() enters "2. Fetch From API" and calls fetchPage for page 1
FetchFromApi ==
    /\ currentPage' = 1
    /\ totalPages' = 1
    /\ allFeatures' = <<>>
    /\ IF HasLocality(params)
       THEN BeginFetchPage /\ outcome' = outcome
       ELSE FetchPageNull

\* search() is called: "0. Validate params", computeHash, and the call of
\* findUnique
SearchStart ==
    /\ pc = "idle"
    /\ IF SearchParamsSchema(params)
       THEN /\ pc' = "cacheLookup"
            /\ cacheOps' = [cacheOps EXCEPT !.reads = @ + 1]
            /\ outcome' = outcome
       ELSE /\ pc' = "failed"
            /\ outcome' = Rejected(InvalidSearchParameters)
            /\ cacheOps' = cacheOps
    /\ UNCHANGED <<now, limiterVars, callerVars, hashVars, registryVars, serviceVars, pageVars, backoffVars, transformVars, raceVars, maxRetries, params,
                   attempt, lastError, wakeAt, currentPage, totalPages, allFeatures,
                   pageData, cache, httpRequests, tokensTaken, answered, kindsSeen,
                   lastAnswer, backoffUntil, lastWait, pageLog>>

\* findUnique resolved with the row of the hash, or with null: "1. Check
\* Cache", up to the return, the call of delete, or the first await of fetchPage
CacheLookupDone ==
    /\ pc = "cacheLookup"
    /\ IF cache.present
       THEN /\ IF IsFresh(now - cache.createdAt)
               THEN /\ outcome' = Resolved(ParseFeatures(cache.payload))
                    /\ pc' = "resolved"
                    /\ cacheOps' = [cacheOps EXCEPT !.found = Found(cache, now)]
               ELSE /\ pc' = "cacheDelete"
                    /\ cacheOps' = [cacheOps EXCEPT !.found = Found(cache, now),
                                                    !.deletes = @ + 1]
                    /\ outcome' = outcome
            /\ UNCHANGED <<limiterVars, attempt, lastError, wakeAt, currentPage,
                           totalPages, allFeatures, httpRequests, tokensTaken,
                           answered, kindsSeen, lastAnswer, backoffUntil, lastWait>>
       ELSE /\ cacheOps' = [cacheOps EXCEPT !.found = Found(cache, now)]
            /\ FetchFromApi
    /\ UNCHANGED <<now, callerVars, hashVars, registryVars, serviceVars, pageVars, backoffVars, transformVars, raceVars, maxRetries, params, pageData,
                   cache, pageLog>>

\* findUnique rejected: line 64 is outside the try block, search() rejects
CacheLookupFailed ==
    /\ pc = "cacheLookup"
    /\ outcome' = Rejected(CacheError("findUnique"))
    /\ pc' = "failed"
    /\ UNCHANGED <<now, limiterVars, callerVars, hashVars, registryVars, serviceVars, pageVars, backoffVars, transformVars, raceVars, maxRetries, params,
                   attempt, lastError, wakeAt, currentPage, totalPages, allFeatures,
                   pageData, cache, httpRequests, tokensTaken, answered, kindsSeen,
                   lastAnswer, backoffUntil, lastWait, cacheOps, pageLog>>

\* delete resolved: the expired row is gone, and the fetch begins
CacheDeleted ==
    /\ pc = "cacheDelete"
    /\ cache' = RowAfterDelete(cache)
    /\ FetchFromApi
    /\ UNCHANGED <<now, callerVars, hashVars, registryVars, serviceVars, pageVars, backoffVars, transformVars, raceVars, maxRetries, params, pageData,
                   cacheOps, pageLog>>

\* delete rejected: line 76 is outside the try block, search() rejects
CacheDeleteFailed ==
    /\ pc = "cacheDelete"
    /\ outcome' = Rejected(CacheError("delete"))
    /\ pc' = "failed"
    /\ UNCHANGED <<now, limiterVars, callerVars, hashVars, registryVars, serviceVars, pageVars, backoffVars, transformVars, raceVars, maxRetries, params,
                   attempt, lastError, wakeAt, currentPage, totalPages, allFeatures,
                   pageData, cache, httpRequests, tokensTaken, answered, kindsSeen,
                   lastAnswer, backoffUntil, lastWait, cacheOps, pageLog>>

\* the timer of waitForToken fires: refill again, consume, return
WaitResume ==
    /\ pc = "suspended"
    /\ now >= wakeAt
    /\ LET r == ConsumeAfterWait(tokens, lastRefill, now)
       IN  /\ tokens' = r[1]
           /\ lastRefill' = r[2]
    /\ afterRefill' = Refill(tokens, lastRefill, now)[1]
    /\ granted' = granted + 1
    /\ tokensTaken' = tokensTaken + 1
    /\ pc' = "granted"
    /\ UNCHANGED <<now, callerVars, hashVars, registryVars, serviceVars, pageVars, backoffVars, transformVars, raceVars, maxRetries, params, attempt, lastError, wakeAt, currentPage,
                   totalPages, allFeatures, pageData, outcome, cache, cacheOps, pageLog, httpRequests,
                   answered, kindsSeen, lastAnswer, backoffUntil, lastWait>>

\* fetchPage goes on after waitForToken: it calls fetch()
IssueRequest ==
    /\ pc = "granted"
    /\ httpRequests' = httpRequests + 1
    /\ pageLog' = IF httpRequests = 0
                  THEN Append(pageLog, [page |-> currentPage, done |-> FALSE, listings |-> <<>>])
                  ELSE pageLog
    /\ pc' = "awaitingResponse"
    /\ UNCHANGED <<now, limiterVars, callerVars, hashVars, registryVars, serviceVars, pageVars, backoffVars, transformVars, raceVars, maxRetries, params, attempt, lastError, wakeAt,
                   currentPage, totalPages, allFeatures, pageData, outcome, cache, cacheOps,
                   tokensTaken, answered, kindsSeen, lastAnswer, backoffUntil, lastWait>>

\* line 237 with <= for <
AttemptsRemainOffByOne(att, retries) == att <= retries

\* line 237: attempt < this.maxRetries
AttemptsRemain(att, retries) == att < retries

\* a catch block that sleeps after every failure
IsLastAttemptNever(att, retries) == FALSE
\* line 257: attempt === this.maxRetries
IsLastAttempt(att, retries) == att = retries

\* the catch block keeping the first error it saw
CatchBlockFirstError(e) ==
    /\ lastError' = IF lastError = NoError THEN e ELSE lastError
    /\ IF IsLastAttempt(attempt, maxRetries)
       THEN /\ pc' = "fetchRejected"
            /\ UNCHANGED <<wakeAt, backoffUntil, lastWait>>
       ELSE /\ pc' = "backoff"
            /\ wakeAt' = now + CatchDelay(attempt)
            /\ backoffUntil' = now + CatchDelay(attempt)
            /\ lastWait' = CatchDelay(attempt)

\* the catch block of the loop, for the error e thrown in the try block
CatchBlock(e) ==
    /\ lastError' = e
    /\ IF IsLastAttempt(attempt, maxRetries)
       THEN /\ pc' = "fetchRejected"            \* break; throw lastError
            /\ UNCHANGED <<wakeAt, backoffUntil, lastWait>>
       ELSE /\ pc' = "backoff"
            /\ wakeAt' = now + CatchDelay(attempt)
            /\ backoffUntil' = now + CatchDelay(attempt)
            /\ lastWait' = CatchDelay(attempt)

\* fetch() settles with r: the rest of the try block, and the catch block
HttpResponse(r) ==
    /\ pc = "awaitingResponse"
    /\ answered' = answered + 1
    /\ kindsSeen' = kindsSeen \cup {Kind(r)}
    /\ lastAnswer' = r
    /\ pageLog' = IF ~IsException(r) /\ IsOk(r)
                  THEN [pageLog EXCEPT ![Len(pageLog)] =
                            [page |-> currentPage, done |-> TRUE, listings |-> r.listings]]
                  ELSE pageLog
    /\ IF IsException(r)
       THEN CatchBlock(NetworkError(r.cause)) /\ UNCHANGED pageData
       ELSE IF r.status = 429
       THEN IF AttemptsRemain(attempt, maxRetries)
            THEN \E j \in JitterSamples :
                    /\ pc' = "backoff"
                    /\ wakeAt' = now + RateLimitWait(r, attempt, j)
                    /\ backoffUntil' = now + RateLimitWait(r, attempt, j)
                    /\ lastWait' = RateLimitWait(r, attempt, j)
                    /\ UNCHANGED <<lastError, pageData>>
            ELSE CatchBlock(RateLimitExhausted) /\ UNCHANGED pageData
       ELSE IF ~IsOk(r)
       THEN CatchBlock(StatusError(r.status)) /\ UNCHANGED pageData
       ELSE /\ pageData' = r
            /\ pc' = "fetchResolved"
            /\ UNCHANGED <<lastError, wakeAt, backoffUntil, lastWait>>
    /\ UNCHANGED <<now, limiterVars, callerVars, hashVars, registryVars, serviceVars, pageVars, backoffVars, transformVars, raceVars, maxRetries, params, attempt, currentPage,
                   totalPages, allFeatures, outcome, cache, cacheOps, httpRequests, tokensTaken>>

\* the loop with waitForToken() called once, before it: a retry takes no token
BackoffDoneNoToken ==
    /\ pc = "backoff"
    /\ now >= wakeAt
    /\ attempt' = attempt + 1
    /\ IF attempt + 1 <= maxRetries
       THEN pc' = "granted" /\ lastError' = lastError
       ELSE /\ lastError' = IF lastError = NoError THEN FailedToFetch ELSE lastError
            /\ pc' = "fetchRejected"
    /\ UNCHANGED <<now, limiterVars, tokensTaken, wakeAt, callerVars, hashVars, registryVars, serviceVars, pageVars, backoffVars, transformVars, raceVars, maxRetries, params,
                   currentPage, totalPages, allFeatures, pageData, outcome, cache, cacheOps, pageLog,
                   httpRequests, answered, kindsSeen, lastAnswer, backoffUntil, lastWait>>

\* the backoff sleep ends: attempt++, and the next iteration of the loop
\* begins, or the loop is left and line 265 throws
BackoffDone ==
    /\ pc = "backoff"
    /\ now >= wakeAt
    /\ attempt' = attempt + 1
    /\ IF attempt + 1 <= maxRetries
       THEN AcquireToken(tokensTaken) /\ lastError' = lastError
       ELSE /\ lastError' = IF lastError = NoError THEN FailedToFetch ELSE lastError
            /\ pc' = "fetchRejected"
            /\ UNCHANGED <<limiterVars, tokensTaken, wakeAt>>
    /\ UNCHANGED <<now, callerVars, hashVars, registryVars, serviceVars, pageVars, backoffVars, transformVars, raceVars, maxRetries, params, currentPage, totalPages,
                   allFeatures, pageData, outcome, cache, cacheOps, pageLog, httpRequests, answered,
                   kindsSeen, lastAnswer, backoffUntil, lastWait>>

\* the end of search() deciding on the features of the earlier pages only
FinishStale(features) ==
    IF Len(allFeatures) > 0
    THEN /\ pc' = "persisting"
         /\ outcome' = outcome
         /\ cacheOps' = [cacheOps EXCEPT !.upserts = @ + 1]
    ELSE /\ pc' = "resolved"
         /\ outcome' = Resolved(allFeatures)
         /\ cacheOps' = cacheOps

\* the end of search() without the test of line 145: upsert whatever was collected
FinishAlwaysPersist(features) ==
    /\ pc' = "persisting"
    /\ outcome' = outcome
    /\ cacheOps' = [cacheOps EXCEPT !.upserts = @ + 1]

\* "3. Persist Cache" and the return, for the features collected
Finish(features) ==
    IF Len(features) > 0
    THEN /\ pc' = "persisting"                \* upsert is called
         /\ outcome' = outcome
         /\ cacheOps' = [cacheOps EXCEPT !.upserts = @ + 1]
    ELSE /\ pc' = "resolved"
         /\ outcome' = Resolved(features)
         /\ cacheOps' = cacheOps

\* allFeatures.unshift(...transformed)
AccumulateFront(features, transformed) == transformed \o features
\* line 132: allFeatures.push(...transformed)
Accumulate(features, transformed) == features \o transformed

\* currentPage += 2
NextPageSkip(page) == page + 2
\* line 138: currentPage++
NextPage(page) == page + 1

\* an empty page taken for a page like any other
IsEmptyPageNever(listings) == FALSE
\* line 99: listings.length === 0
IsEmptyPage(listings) == Len(listings) = 0

\* search() goes on after fetchPage resolved: the body of the do-while loop
PageReceived ==
    /\ pc = "fetchResolved"
    /\ LET listings == pageData.listings
           pages == IF pageData.total_pages # 0 THEN pageData.total_pages ELSE 1
           features == Accumulate(allFeatures, TransformAll(listings))
       IN  IF IsEmptyPage(listings)
           THEN /\ Finish(allFeatures)
                /\ UNCHANGED <<limiterVars, attempt, lastError, wakeAt, currentPage,
                               totalPages, allFeatures, httpRequests, tokensTaken,
                               answered, kindsSeen, lastAnswer, backoffUntil, lastWait>>
           ELSE /\ totalPages' = pages
                /\ allFeatures' = features
                /\ IF currentPage >= pages
                   THEN /\ Finish(features)
                        /\ UNCHANGED <<limiterVars, attempt, lastError, wakeAt,
                                       currentPage, httpRequests, tokensTaken,
                                       answered, kindsSeen, lastAnswer, backoffUntil, lastWait>>
                   ELSE /\ currentPage' = NextPage(currentPage)
                        /\ BeginFetchPage
                        /\ outcome' = outcome
                        /\ cacheOps' = cacheOps
    /\ UNCHANGED <<now, callerVars, hashVars, registryVars, serviceVars, pageVars, backoffVars, transformVars, raceVars, maxRetries, params, pageData,
                   cache, pageLog>>

\* the upsert of the cache row is done: search() returns allFeatures
CacheUpserted ==
    /\ pc = "persisting"
    /\ cache' = [present |-> TRUE, payload |-> StringifyFeatures(allFeatures), createdAt |-> now]
    /\ outcome' = Resolved(allFeatures)
    /\ pc' = "resolved"
    /\ UNCHANGED <<now, limiterVars, callerVars, hashVars, registryVars, serviceVars, pageVars, backoffVars, transformVars, raceVars, maxRetries, params,
                   attempt, lastError, wakeAt, currentPage, totalPages, allFeatures,
                   pageData, httpRequests, tokensTaken, answered, kindsSeen, lastAnswer,
                   backoffUntil, lastWait, cacheOps, pageLog>>

\* the upsert rejected: the catch block of search() logs and throws the error
CacheUpsertFailed ==
    /\ pc = "persisting"
    /\ outcome' = Rejected(CacheError("upsert"))
    /\ pc' = "failed"
    /\ UNCHANGED <<now, limiterVars, callerVars, hashVars, registryVars, serviceVars, pageVars, backoffVars, transformVars, raceVars, maxRetries, params,
                   attempt, lastError, wakeAt, currentPage, totalPages, allFeatures,
                   pageData, cache, httpRequests, tokensTaken, answered, kindsSeen,
                   lastAnswer, backoffUntil, lastWait, cacheOps, pageLog>>

\* a catch block of search() that logs and returns []
SearchCatchSwallow ==
    /\ pc = "fetchRejected"
    /\ outcome' = Resolved(<<>>)
    /\ pc' = "resolved"
    /\ UNCHANGED <<now, limiterVars, callerVars, hashVars, registryVars, serviceVars, pageVars, backoffVars, transformVars, raceVars, maxRetries, params, attempt, lastError, wakeAt,
                   currentPage, totalPages, allFeatures, pageData, cache, cacheOps, pageLog, httpRequests,
                   tokensTaken, answered, kindsSeen, lastAnswer, backoffUntil, lastWait>>

\* a catch block of search() that returns what the earlier pages gave
SearchCatchPartial ==
    /\ pc = "fetchRejected"
    /\ outcome' = Resolved(allFeatures)
    /\ pc' = "resolved"
    /\ UNCHANGED <<now, limiterVars, callerVars, hashVars, registryVars, serviceVars, pageVars, backoffVars, transformVars, raceVars, maxRetries, params, attempt, lastError, wakeAt,
                   currentPage, totalPages, allFeatures, pageData, cache, cacheOps, pageLog, httpRequests,
                   tokensTaken, answered, kindsSeen, lastAnswer, backoffUntil, lastWait>>

\* the catch block of search(): log, throw error
SearchCatch ==
    /\ pc = "fetchRejected"
    /\ outcome' = Rejected(lastError)
    /\ pc' = "rejected"
    /\ UNCHANGED <<now, limiterVars, callerVars, hashVars, registryVars, serviceVars, pageVars, backoffVars, transformVars, raceVars, maxRetries, params, attempt, lastError, wakeAt,
                   currentPage, totalPages, allFeatures, pageData, cache, cacheOps, pageLog, httpRequests,
                   tokensTaken, answered, kindsSeen, lastAnswer, backoffUntil, lastWait>>

\* Nothing else runs until the pending timer of the search is due.  The code
\* reads the clock only in differences (now - lastRefill, the delay of a
\* timer), so past MaxTime the origin of the clock moves along with it: every
\* time of the state is shifted by the same amount.
TimerJump ==
    /\ pc \in {"suspended", "backoff"}
    /\ wakeAt > now
    /\ LET shift == Max(0, wakeAt - MaxTime)
       IN  /\ now' = wakeAt - shift
           /\ wakeAt' = wakeAt - shift
           /\ lastRefill' = lastRefill - shift
           /\ backoffUntil' = backoffUntil - shift
           /\ cache' = IF cache.present
                       THEN [cache EXCEPT !.createdAt = @ - shift]
                       ELSE cache
    /\ UNCHANGED <<tokens, afterRefill, granted, callerVars, hashVars, registryVars, serviceVars, pageVars, backoffVars, transformVars, raceVars, maxRetries, params, pc, attempt, lastError,
                   currentPage, totalPages, allFeatures, pageData, outcome,
                   httpRequests, tokensTaken, answered, kindsSeen, lastAnswer, cacheOps, pageLog,
                   lastWait>>

(* ---------------- SpecHash: computeHash on query objects --------------- *)
InitHash == digests = {}

\* computeHash(q) is called, for one more query object
ComputeHash(q) ==
    /\ Cardinality(digests) < MaxCompared
    /\ digests' = digests \cup {[query |-> q, digest |-> computeHash(q)]}
    /\ UNCHANGED <<now, limiterVars, callerVars, searchVars, registryVars, serviceVars, pageVars, backoffVars, transformVars, raceVars>>

(* ------------- SpecRegistry: the registry of rate limiters ------------- *)
ProviderNames == {"realtor16", "CountyTaxSale", "MockListingService"}
InitRegistry ==
    /\ limiters = {}
    /\ handles = <<>>

\* this.limiters.has(providerName)
Has(map, providerName) == \E e \in map : e.name = providerName
\* this.limiters.get(providerName)
GetEntry(map, providerName) == (CHOOSE e \in map : e.name = providerName).instance

\* getLimiter without the test of has(): a new limiter on every call; the
\* instance is named by the number of the call that constructed it
GetLimiterAlwaysNew(map, providerName, fresh) ==
    {e \in map : e.name # providerName} \cup {[name |-> providerName, instance |-> fresh]}
\* getLimiter(providerName), up to its return: the map it leaves
GetLimiter(map, providerName, fresh) ==
    IF ~Has(map, providerName)
    THEN map \cup {[name |-> providerName, instance |-> fresh]}
    ELSE map

\* getRateLimiter(providerName) is called by the caller named
GetRateLimiterBy(caller, providerName) ==
    /\ Len(handles) < MaxLookups
    /\ LET map == GetLimiter(limiters, providerName, Len(handles) + 1)
       IN  /\ limiters' = map
           /\ handles' = Append(handles, [caller |-> caller, name |-> providerName,
                                          instance |-> GetEntry(map, providerName)])
    /\ UNCHANGED <<now, limiterVars, callerVars, searchVars, hashVars, serviceVars, pageVars, backoffVars, transformVars, raceVars>>

\* new RealtorProvider(): this.limiter = getRateLimiter(this.providerName)
NewRealtorProvider == GetRateLimiterBy("RealtorProvider", "realtor16")
\* getRateLimiter(providerName), called by another module
GetRateLimiter(providerName) == GetRateLimiterBy("other", providerName)

(* ------- SpecConcurrent: a search beside suspended limiter callers ----- *)
\* waitForToken() sleeping on the thread: nothing else runs until it wakes
HoldsEventLoopWhileSuspended(cpc) == cpc = "suspended"
\* line 43: await new Promise(resolve => setTimeout(resolve, waitTime)); the
\* caller gives the event loop back in whichever position it is
HoldsEventLoop(cpc) == FALSE
EventLoopFree == \A c \in Callers : ~HoldsEventLoop(callerPc[c])
SomeCallerSuspended ==
    \E c \in Callers : callerPc[c] = "suspended" /\ now < callerWake[c]

\* search() is called while a caller of the limiter is suspended
ConcurrentSearchStart == SomeCallerSuspended /\ EventLoopFree /\ SearchStart
ConcurrentCacheLookupDone == EventLoopFree /\ CacheLookupDone
ConcurrentCall(c) == EventLoopFree /\ CallWaitForToken(c)

(* ------------ SpecService: PropertyService.searchProperties ------------ *)
Providers == 1..NumProviders
CacheThreshold == 5
NoExternalId == 0
ExternalIds == {1, 2}
Places == {1, 2}
\* what a provider hands back for one property: its externalId if it has one,
\* the place (latitude, longitude, address) the fuzzy key is made of, and
\* whether it passes PropertySchema
ProviderItems ==
    [externalId : {NoExternalId} \cup ExternalIds, place : Places, valid : BOOLEAN]
ProviderValues == {<<>>} \cup {<<it>> : it \in ProviderItems}
\* the numbers of fresh rows the first read can find
FreshCounts == {0, CacheThreshold - 1, CacheThreshold, CacheThreshold + 1}
Unknown == -1

\* PropertyMapper.toInternalArray: the items that pass the schema
toInternalArray(value) == SelectSeq(value, LAMBDA it : it.valid)

DedupKey(it) ==
    IF it.externalId # NoExternalId THEN <<"id", it.externalId>> ELSE <<"place", it.place>>
RECURSIVE DedupFrom(_, _)
DedupFrom(properties, seen) ==
    IF properties = <<>> THEN <<>>
    ELSE IF DedupKey(Head(properties)) \in seen
         THEN DedupFrom(Tail(properties), seen)
         ELSE <<Head(properties)>>
              \o DedupFrom(Tail(properties), seen \cup {DedupKey(Head(properties))})
\* every fetched property passed on as it came
deduplicateNone(properties) == properties
deduplicate(properties) == DedupFrom(properties, {})

\* upsertProperties: only the properties with an externalId are written
validForUpsert(properties) == SelectSeq(properties, LAMBDA it : it.externalId # NoExternalId)

RECURSIVE CollectFrom(_, _)
CollectFrom(prov, p) ==
    IF p > NumProviders THEN <<>>
    ELSE (IF prov[p].state = "fulfilled" THEN toInternalArray(prov[p].value) ELSE <<>>)
         \o CollectFrom(prov, p + 1)
\* Promise.all in the place of Promise.allSettled: one rejection loses all
CollectUnlessRejected(prov) ==
    IF \E p \in Providers : prov[p].state = "rejected" THEN <<>> ELSE CollectFrom(prov, 1)
\* resultsArray.forEach: the validated values of the fulfilled providers, in
\* the order of the providers
CollectFulfilled(prov) == CollectFrom(prov, 1)

\* the threshold missed by one
BelowThresholdInclusive(n) == n <= CacheThreshold
\* cachedFresh.length < this.cacheThreshold
BelowThreshold(n) == n < CacheThreshold

\* a catch block that gives up at once
CatchRethrows(op) == "failed"
\* lines 121-127: the catch block of searchProperties calls the fallback read,
\* whichever call of the try block threw
Catch(op) == "fallbackRead"

NotCalled == [state |-> "idle", value |-> <<>>]
InitService ==
    service = [pc |-> "idle", cachedFresh |-> Unknown,
               prov |-> [p \in Providers |-> NotCalled],
               batch |-> <<>>, stored |-> {}, repoErrors |-> {},
               result |-> [kind |-> "none", fresh |-> 0, fetched |-> {}]]

ServiceStep == UNCHANGED <<now, limiterVars, callerVars, searchVars, hashVars, registryVars,
                           pageVars, backoffVars, transformVars, raceVars>>

CallSearchProperties ==
    /\ service.pc = "idle"
    /\ service' = [service EXCEPT !.pc = "freshRead"]
    /\ ServiceStep

\* findPropertiesByBoundsWithFreshness answered n rows: below the threshold
\* every provider's search is started, otherwise none
FreshReadDone(n) ==
    /\ service.pc = "freshRead"
    /\ service' = IF BelowThreshold(n)
                  THEN [service EXCEPT !.cachedFresh = n, !.pc = "providers",
                            !.prov = [p \in Providers |-> [state |-> "pending", value |-> <<>>]]]
                  ELSE [service EXCEPT !.cachedFresh = n, !.pc = "finalRead"]
    /\ ServiceStep

\* the first read threw: the catch block reads again
FreshReadFailed ==
    /\ service.pc = "freshRead"
    /\ service' = [service EXCEPT !.pc = Catch("fresh"),
                                  !.repoErrors = @ \cup {"fresh"}]
    /\ ServiceStep

ProviderFulfils(p, v) ==
    /\ service.pc = "providers"
    /\ service.prov[p].state = "pending"
    /\ service' = [service EXCEPT !.prov[p] = [state |-> "fulfilled", value |-> v]]
    /\ ServiceStep

ProviderRejects(p) ==
    /\ service.pc = "providers"
    /\ service.prov[p].state = "pending"
    /\ service' = [service EXCEPT !.prov[p] = [state |-> "rejected", value |-> <<>>]]
    /\ ServiceStep

\* Promise.allSettled resolved: collect, deduplicate, and write if there is
\* anything to write
AllSettled ==
    /\ service.pc = "providers"
    /\ \A p \in Providers : service.prov[p].state \in {"fulfilled", "rejected"}
    /\ LET allFetched == CollectFulfilled(service.prov)
           toWrite == IF Len(allFetched) > 0
                      THEN validForUpsert(deduplicate(allFetched))
                      ELSE <<>>
       IN  service' = IF Len(toWrite) > 0
                      THEN [service EXCEPT !.pc = "upsert", !.batch = toWrite]
                      ELSE [service EXCEPT !.pc = "finalRead"]
    /\ ServiceStep

\* createManyProperties with skipDuplicates
UpsertDone ==
    /\ service.pc = "upsert"
    /\ service' = [service EXCEPT !.pc = "finalRead",
                      !.stored = @ \cup {service.batch[i].externalId : i \in 1..Len(service.batch)}]
    /\ ServiceStep

\* createManyProperties threw: logged and swallowed by upsertProperties
UpsertFailed ==
    /\ service.pc = "upsert"
    /\ service' = [service EXCEPT !.pc = "finalRead", !.repoErrors = @ \cup {"upsert"}]
    /\ ServiceStep

\* what findPropertiesByBounds answers: the rows that were there and the
\* rows this call wrote
DatabaseRows ==
    [kind |-> "rows",
     fresh |-> IF service.cachedFresh = Unknown THEN 0 ELSE service.cachedFresh,
     fetched |-> service.stored]

FinalReadDone ==
    /\ service.pc = "finalRead"
    /\ service' = [service EXCEPT !.pc = "returned", !.result = DatabaseRows]
    /\ ServiceStep

FinalReadFailed ==
    /\ service.pc = "finalRead"
    /\ service' = [service EXCEPT !.pc = Catch("final"), !.repoErrors = @ \cup {"final"}]
    /\ ServiceStep

FallbackReadDone ==
    /\ service.pc = "fallbackRead"
    /\ service' = [service EXCEPT !.pc = "returned", !.result = DatabaseRows]
    /\ ServiceStep

\* DatabaseError('Failed to fetch properties even with fallback')
FallbackReadFailed ==
    /\ service.pc = "fallbackRead"
    /\ service' = [service EXCEPT !.pc = "failed", !.repoErrors = @ \cup {"fallback"},
                      !.result = [kind |-> "DatabaseError", fresh |-> 0, fetched |-> {}]]
    /\ ServiceStep

(* ----------------- SpecPage: one page body processed ------------------- *)
\* a candidate key of the body: absent, or an array
AbsentField == [present |-> FALSE, items |-> <<>>]
Field(its) == [present |-> TRUE, items |-> its]
\* the arrays a candidate key can hold: listings of its own, and nulls
ListingArrays(base) ==
    UNION {[1..n -> {NullListing, base + 1, base + 2}] : n \in 0..MaxPageLen}
Fields(base) == {AbsentField} \cup {Field(a) : a \in ListingArrays(base)}
PageBodies ==
    {[properties |-> f, listings |-> g, results |-> h] :
        f \in Fields(0), g \in Fields(PageStride), h \in Fields(2 * PageStride)}

\* line 97: response.properties || response.listings || response.results || []
\* (an array is truthy, the empty one too)
ExtractListings(body) ==
    IF body.properties.present THEN body.properties.items
    ELSE IF body.listings.present THEN body.listings.items
    ELSE IF body.results.present THEN body.results.items
    ELSE <<>>

NoPageCall ==
    [done |-> FALSE, body |-> [properties |-> AbsentField, listings |-> AbsentField,
                               results |-> AbsentField],
     listings |-> <<>>, features |-> <<>>]
InitPage == pageCall = NoPageCall

\* lines 97-132 for one body: the array extracted and the features made of it
ProcessPage(body) ==
    /\ ~pageCall.done
    /\ pageCall' = [done |-> TRUE, body |-> body,
                    listings |-> ExtractListings(body),
                    features |-> TransformAll(ExtractListings(body))]
    /\ UNCHANGED <<now, limiterVars, callerVars, searchVars, hashVars, registryVars,
                   serviceVars, backoffVars, transformVars, raceVars>>

(* ------------- SpecBackoff: the sleeps of one fetchPage call ----------- *)
FailureKinds == {"429", "exception"}
InitBackoff == backoffLog = <<>>

\* attempt number Len(backoffLog) failed with a 429 without Retry-After, or
\* with an exception, and attempts remain: the sleep fetchPage computes
SleepAfter(kind, j) ==
    /\ Len(backoffLog) < MaxAttempts
    /\ LET att == Len(backoffLog)
       IN  backoffLog' = Append(backoffLog,
              [attempt |-> att, kind |-> kind,
               delay |-> IF kind = "429"
                         THEN RateLimitWait(Answer(429, NoHeader, <<>>, 0, "none"), att, j)
                         ELSE CatchDelay(att)])
    /\ UNCHANGED <<now, limiterVars, callerVars, searchVars, hashVars, registryVars,
                   serviceVars, pageVars, transformVars, raceVars>>

(* ------------ SpecTransform: transformListing on one listing ----------- *)
\* the values of a listing's fields.  A number is given by its floor v and by
\* whether it is whole; coordinates are written in units of 0.0001 degree,
\* the d of transformListing, so that they are whole.
JsUndefined == [t |-> "undefined", nan |-> FALSE, v |-> 0, whole |-> TRUE, chars |-> <<>>]
JsNaN == [t |-> "number", nan |-> TRUE, v |-> 0, whole |-> FALSE, chars |-> <<>>]
JsNumber(v, whole) == [t |-> "number", nan |-> FALSE, v |-> v, whole |-> whole, chars |-> <<>>]
JsString(chars) == [t |-> "string", nan |-> FALSE, v |-> 0, whole |-> TRUE, chars |-> chars]

\* undefined, 0, NaN and "" are falsy
IsTruthy(x) ==
    CASE x.t = "undefined" -> FALSE
      [] x.t = "number" -> ~x.nan /\ ~(x.v = 0 /\ x.whole)
      [] x.t = "string" -> x.chars # <<>>
\* a || b
Or(a, b) == IF IsTruthy(a) THEN a ELSE b

DigitChars == <<"0", "1", "2", "3", "4", "5", "6", "7", "8", "9">>
IsDigit(c) == \E i \in 1..Len(DigitChars) : DigitChars[i] = c
DigitValue(c) == (CHOOSE i \in 1..Len(DigitChars) : DigitChars[i] = c) - 1
RECURSIVE LeadingDigits(_)
LeadingDigits(chars) ==
    IF chars = <<>> \/ ~IsDigit(Head(chars)) THEN <<>>
    ELSE <<Head(chars)>> \o LeadingDigits(Tail(chars))
RECURSIVE ToNat(_)
ToNat(ds) ==
    IF ds = <<>> THEN 0
    ELSE ToNat(SubSeq(ds, 1, Len(ds) - 1)) * 10 + DigitValue(ds[Len(ds)])
\* parseFloat(x): of a number, the number; of undefined, NaN; of a string, the
\* longest prefix that is a decimal numeral (the strings it is given here are
\* stripped of every sign, blank and letter before)
parseFloat(x) ==
    IF x.t = "number" THEN x
    ELSE IF x.t = "undefined" THEN JsNaN
    ELSE LET ip == LeadingDigits(x.chars)
             rest == SubSeq(x.chars, Len(ip) + 1, Len(x.chars))
             fp == IF rest # <<>> /\ Head(rest) = "." THEN LeadingDigits(Tail(rest)) ELSE <<>>
         IN  IF ip = <<>> /\ fp = <<>> THEN JsNaN
             ELSE JsNumber(ToNat(ip), \A i \in 1..Len(fp) : fp[i] = "0")
\* rawPrice.replace(/[^0-9.]/g, '') for a string, rawPrice.toString() otherwise
CleanedPrice(raw) ==
    IF raw.t = "string"
    THEN JsString(SelectSeq(raw.chars, LAMBDA c : IsDigit(c) \/ c = "."))
    ELSE raw
MathFloor(x) == IF x.nan THEN x ELSE JsNumber(x.v, TRUE)
\* x + k for a whole k
Plus(x, k) == IF x.nan THEN x ELSE JsNumber(x.v + k, x.whole)
dUnits == 1

\* lines 268-309, for a listing that is an object: the ring of the geometry
\* and properties.price
transformListing(listing) ==
    LET latVal == Or(Or(listing.latitude, listing.lat), listing.coordinate.lat)
        lonVal == Or(Or(listing.longitude, listing.lon), listing.coordinate.lon)
        lat == parseFloat(latVal)
        lon == parseFloat(lonVal)
        rawPrice == Or(Or(listing.price, listing.list_price), JsString(<<"0">>))
    IN  [ring |-> << <<Plus(lon, -dUnits), Plus(lat, -dUnits)>>,
                     <<Plus(lon, dUnits), Plus(lat, -dUnits)>>,
                     <<Plus(lon, dUnits), Plus(lat, dUnits)>>,
                     <<Plus(lon, -dUnits), Plus(lat, dUnits)>>,
                     <<Plus(lon, -dUnits), Plus(lat, -dUnits)>> >>,
         price |-> MathFloor(Or(parseFloat(CleanedPrice(rawPrice)), JsNumber(0, TRUE)))]

\* the listings transformListing is called with
NoCoordinate == [lat |-> JsUndefined, lon |-> JsUndefined]
PriceValues ==
    {JsUndefined, JsNumber(0, TRUE), JsNumber(300000, TRUE), JsNumber(250000, FALSE),
     JsNumber(-5, TRUE),
     JsString(<<"$", "2", "5", "0", ",", "0", "0", "0", ".", "5">>),
     JsString(<<"N", "o", "t", " ", "a", " ", "n", "u", "m", "b", "e", "r">>)}
Listings ==
    [latitude : {JsUndefined, JsNumber(0, TRUE), JsNumber(352271, TRUE)},
     longitude : {JsUndefined, JsNumber(-808431, TRUE)},
     lat : {JsUndefined, JsNumber(365000, TRUE)},
     lon : {JsUndefined, JsNumber(-932000, TRUE)},
     coordinate : {NoCoordinate, [lat |-> JsNumber(365000, TRUE), lon |-> JsNumber(-932000, TRUE)]},
     price : PriceValues,
     list_price : {JsUndefined, JsNumber(250000, TRUE)}]

InitTransform ==
    normalized = [done |-> FALSE,
                  listing |-> [latitude |-> JsUndefined, longitude |-> JsUndefined,
                               lat |-> JsUndefined, lon |-> JsUndefined,
                               coordinate |-> NoCoordinate,
                               price |-> JsUndefined, list_price |-> JsUndefined],
                  feature |-> [ring |-> <<>>, price |-> JsUndefined]]

\* transformListing(listing) is called
Transform(listing) ==
    /\ ~normalized.done
    /\ normalized' = [done |-> TRUE, listing |-> listing, feature |-> transformListing(listing)]
    /\ UNCHANGED <<now, limiterVars, callerVars, searchVars, hashVars, registryVars,
                   serviceVars, pageVars, backoffVars, raceVars>>

(* --------- SpecRace: searches for one query that overlap --------------- *)
Searches == 1..NumSearches
\* the row of the hash (the table has a unique index on hash); by is the
\* search whose upsert wrote it, 0 for the row that was there before
ExpiredRow == [present |-> TRUE, fresh |-> FALSE, payload |-> <<>>, by |-> 0]
NoRow == [present |-> FALSE, fresh |-> FALSE, payload |-> <<>>, by |-> 0]
NotStarted ==
    [pc |-> "idle", page |-> 1, allFeatures |-> <<>>,
     outcome |-> [kind |-> "pending", value |-> <<>>, error |-> "none"]]
InitRace ==
    race = [row |-> ExpiredRow, s |-> [x \in Searches |-> NotStarted], deleted |-> 0]

\* one array for all the searches of the provider
AccumulatorShared(x) == 1
\* line 85: const allFeatures = [] is a local of the call
Accumulator(x) == x

RaceStep == UNCHANGED <<now, limiterVars, callerVars, searchVars, hashVars, registryVars,
                        serviceVars, pageVars, backoffVars, transformVars>>

\* search() is called and calls findUnique
RaceSearch(x) ==
    /\ race.s[x].pc = "idle"
    /\ race' = [race EXCEPT !.s[x].pc = "cacheLookup"]
    /\ RaceStep

\* findUnique resolved: hit, expired (delete is called) or miss
RaceLookupDone(x) ==
    /\ race.s[x].pc = "cacheLookup"
    /\ race' = IF ~race.row.present
               THEN [race EXCEPT !.s[x].pc = "fetching"]
               ELSE IF race.row.fresh
               THEN [race EXCEPT !.s[x].pc = "resolved",
                                 !.s[x].outcome = [kind |-> "resolved", value |-> race.row.payload,
                                                   error |-> "none"]]
               ELSE [race EXCEPT !.s[x].pc = "cacheDelete"]
    /\ RaceStep

\* delete settled: the row of the hash is removed, whoever wrote it; with no
\* row to delete the call rejects (record to delete does not exist), outside
\* the try block
RaceDeleteDone(x) ==
    /\ race.s[x].pc = "cacheDelete"
    /\ race' = IF race.row.present
               THEN [race EXCEPT !.row = NoRow, !.deleted = @ + 1, !.s[x].pc = "fetching"]
               ELSE [race EXCEPT !.s[x].pc = "rejected",
                                 !.s[x].outcome = [kind |-> "rejected", value |-> <<>>,
                                                   error |-> "delete"]]
    /\ RaceStep

\* fetchPage resolved with the listing of the page; more says whether
\* total_pages announces a further page
RacePageDone(x, more) ==
    /\ race.s[x].pc = "fetching"
    /\ LET a == Accumulator(x)
           pushed == [race EXCEPT !.s[a].allFeatures =
                                     Append(@, [by |-> x, page |-> race.s[x].page])]
       IN  race' = IF more /\ race.s[x].page < MaxPages
                   THEN [pushed EXCEPT !.s[x].page = @ + 1]
                   ELSE [pushed EXCEPT !.s[x].pc = "persisting"]
    /\ RaceStep

\* fetchPage rejected after its retries
RaceFetchFailed(x) ==
    /\ race.s[x].pc = "fetching"
    /\ race' = [race EXCEPT !.s[x].pc = "rejected",
                            !.s[x].outcome = [kind |-> "rejected", value |-> <<>>,
                                              error |-> "fetch"]]
    /\ RaceStep

\* upsert resolved: the row of the hash holds the payload of this search,
\* which returns allFeatures
RaceUpsertDone(x) ==
    /\ race.s[x].pc = "persisting"
    /\ LET features == race.s[Accumulator(x)].allFeatures
       IN  race' = [race EXCEPT
                       !.row = [present |-> TRUE, fresh |-> TRUE, payload |-> features, by |-> x],
                       !.s[x].pc = "resolved",
                       !.s[x].outcome = [kind |-> "resolved", value |-> features,
                                         error |-> "none"]]
    /\ RaceStep

(* ------------------------- the specifications -------------------------- *)
Init ==
    /\ InitLimiterState /\ InitCallers /\ InitSearch /\ InitHash /\ InitRegistry
    /\ InitService /\ InitPage /\ InitBackoff /\ InitTransform /\ InitRace

\* the same with search() left uncalled, for the specifications of the parts
InitAtRest ==
    /\ Init
    /\ maxRetries = MaxRetriesCfg
    /\ cache = NoEntry
    /\ params = ValidQuery

Next ==
    \/ SearchStart
    \/ CacheLookupDone
    \/ CacheLookupFailed
    \/ CacheDeleted
    \/ CacheDeleteFailed
    \/ WaitResume
    \/ IssueRequest
    \/ \E r \in Answers(currentPage) : HttpResponse(r)
    \/ BackoffDone
    \/ PageReceived
    \/ CacheUpserted
    \/ CacheUpsertFailed
    \/ SearchCatch
    \/ Tick
    \/ TimerJump

Spec == Init /\ [][Next]_vars

NextLimiter ==
    \/ \E c \in Callers : CallWaitForToken(c)
    \/ \E c \in Callers : ResumeWaitForToken(c)
    \/ Tick

SpecLimiter == InitAtRest /\ [][NextLimiter]_vars

NextHash == \E q \in HashQueries : ComputeHash(q)

SpecHash == InitAtRest /\ [][NextHash]_vars

NextRegistry ==
    \/ NewRealtorProvider
    \/ \E name \in ProviderNames : GetRateLimiter(name)

SpecRegistry == InitAtRest /\ [][NextRegistry]_vars

\* a fresh row for the query is in the cache
InitConcurrent ==
    /\ Init
    /\ maxRetries = MaxRetriesCfg
    /\ params = ValidQuery
    /\ cache.present
    /\ cache.createdAt = 0

NextConcurrent ==
    \/ \E c \in Callers : ConcurrentCall(c)
    \/ \E c \in Callers : ResumeWaitForToken(c)
    \/ Tick
    \/ ConcurrentSearchStart
    \/ ConcurrentCacheLookupDone
SpecConcurrent == InitConcurrent /\ [][NextConcurrent]_vars

NextService ==
    \/ CallSearchProperties
    \/ \E n \in FreshCounts : FreshReadDone(n)
    \/ FreshReadFailed
    \/ \E p \in Providers, v \in ProviderValues : ProviderFulfils(p, v)
    \/ \E p \in Providers : ProviderRejects(p)
    \/ AllSettled
    \/ UpsertDone
    \/ UpsertFailed
    \/ FinalReadDone
    \/ FinalReadFailed
    \/ FallbackReadDone
    \/ FallbackReadFailed
SpecService == InitAtRest /\ [][NextService]_vars

NextRace ==
    \/ \E x \in Searches : RaceSearch(x)
    \/ \E x \in Searches : RaceLookupDone(x)
    \/ \E x \in Searches : RaceDeleteDone(x)
    \/ \E x \in Searches, more \in BOOLEAN : RacePageDone(x, more)
    \/ \E x \in Searches : RaceFetchFailed(x)
    \/ \E x \in Searches : RaceUpsertDone(x)
SpecRace == InitAtRest /\ [][NextRace]_vars

NextTransform == \E listing \in Listings : Transform(listing)
SpecTransform == InitAtRest /\ [][NextTransform]_vars

NextPageBody == \E body \in PageBodies : ProcessPage(body)
SpecPage == InitAtRest /\ [][NextPageBody]_vars

NextBackoff == \E kind \in FailureKinds, j \in {0, JitterMs} : SleepAfter(kind, j)
SpecBackoff == InitAtRest /\ [][NextBackoff]_vars

(* ------------------------------ the claims ----------------------------- *)
IsSuffix(a, b) ==
    /\ Len(a) <= Len(b)
    /\ SubSeq(b, Len(b) - Len(a) + 1, Len(b)) = a

FetchFailed == pc \in {"fetchRejected", "rejected"}
Only429 == kindsSeen = {"429"}
OnlyExceptions == kindsSeen = {"exception"}
\* in the backoff sleep after the last answer, or past it and waiting for the
\* token of the next attempt
Retrying ==
    \/ pc = "backoff" /\ attempt = answered - 1
    \/ pc \in {"suspended", "granted"} /\ attempt = answered /\ now >= backoffUntil

\* C1 (SpecLimiter): the waitForToken() calls that have returned by time now
\* never exceed capacity + refillRate * now.
C1_SharedBudget ==
    granted * RefillRateDen <= Capacity * RefillRateDen + RefillRateNum * now

\* C2 (SpecLimiter): after every refill and in every state, tokens <= capacity.
C2_TokensWithinCapacity ==
    /\ tokens <= capacity
    /\ afterRefill <= capacity

\* the bucket was emptied, and a later refill met the cap
C2_Witness ==
    /\ granted >= Capacity
    /\ lastRefill >= 3
    /\ afterRefill = capacity

\* C3 (SpecLimiter): tokens >= 0 in every state, whichever path consumed the
\* token and however many callers are suspended.
C3_NeverNegative == tokens >= 0

\* C4 (Spec): fetchPage holds exactly one token more than the requests it has
\* issued when it issues the next one, and as many as requests otherwise; the
\* token of a retry is taken after the backoff sleep of the attempt before.
C4_TokenPerRequest ==
    /\ pc = "granted" => tokensTaken = httpRequests + 1
    /\ pc # "granted" => tokensTaken = httpRequests
    /\ pc \in {"awaitingResponse", "fetchResolved", "fetchRejected"} => httpRequests = attempt + 1
    /\ (pc \in {"suspended", "granted", "awaitingResponse"} /\ attempt > 0) => now >= backoffUntil

\* a retry is in flight, with its own token
C4_Witness ==
    /\ pc = "awaitingResponse"
    /\ attempt = 2
    /\ httpRequests = 3
    /\ tokensTaken = 3

\* C5 (Spec): when every attempt is answered 429, fetchPage sleeps after each
\* of the first maxRetries answers, and fails with the rate-limit error after
\* exactly maxRetries + 1 requests.
C5_Persistent429 ==
    Only429 =>
        /\ httpRequests <= maxRetries + 1
        /\ (answered = httpRequests /\ answered <= maxRetries) => Retrying
        /\ answered = maxRetries + 1 => FetchFailed
        /\ FetchFailed => (httpRequests = maxRetries + 1 /\ lastError = RateLimitExhausted)

\* fetchPage gave up after 429 on every attempt
C5_Witness ==
    /\ Only429
    /\ pc = "fetchRejected"
    /\ maxRetries = MaxRetriesCfg
    /\ httpRequests = MaxRetriesCfg + 1

\* C6 (Spec): after k <= maxRetries answers of 429 and then a success,
\* fetchPage has issued k + 1 requests and resolved with the body of the
\* success, and search returns the listings of that body (unless the cache
\* store failed on the upsert, pc = "failed": C14).
C6_RetryThenSuccess ==
    /\ (Only429 /\ answered <= maxRetries) => ~FetchFailed
    /\ (kindsSeen \subseteq {"429", "ok"} /\ "ok" \in kindsSeen) =>
          /\ pc \in {"fetchResolved", "persisting", "resolved", "failed"}
          /\ pc = "failed" => outcome.error = CacheError("upsert")
          /\ answered <= maxRetries + 1
          /\ httpRequests = answered
          /\ pageData = lastAnswer
          /\ pc = "resolved" =>
                /\ outcome.kind = "resolved"
                /\ IsSuffix(TransformAll(lastAnswer.listings), outcome.value)

\* maxRetries answers of 429, then a success with listings, returned
C6_Witness ==
    /\ kindsSeen = {"429", "ok"}
    /\ maxRetries = MaxRetriesCfg
    /\ answered = maxRetries + 1
    /\ pc = "resolved"
    /\ Len(lastAnswer.listings) > 0
    /\ outcome.value = TransformAll(lastAnswer.listings)

\* C7 (Spec): after an answer with a non-2xx status other than 429 fetchPage
\* has failed: no backoff sleep, no token, no request follows.
C7_NoRetryOnErrorStatus == "status" \in kindsSeen => FetchFailed

\* C8 (Spec): when every attempt raises, fetchPage backs off after each of the
\* first maxRetries exceptions, and fails after exactly maxRetries + 1
\* attempts with the exception of the last attempt.
C8_NetworkRetry ==
    OnlyExceptions =>
        /\ httpRequests <= maxRetries + 1
        /\ (answered = httpRequests /\ answered <= maxRetries) => Retrying
        /\ answered = maxRetries + 1 => FetchFailed
        /\ FetchFailed =>
              /\ httpRequests = maxRetries + 1
              /\ lastError = NetworkError(lastAnswer.cause)

\* every attempt raised, the last one another exception than the first
C8_Witness ==
    /\ OnlyExceptions
    /\ pc = "fetchRejected"
    /\ maxRetries = MaxRetriesCfg
    /\ httpRequests = MaxRetriesCfg + 1
    /\ lastAnswer.cause = "ETIMEDOUT"
    /\ lastError = NetworkError("ETIMEDOUT")

RECURSIVE FeaturesOf(_)
FeaturesOf(log) ==
    IF Len(log) = 0 THEN <<>>
    ELSE TransformAll(Head(log).listings) \o FeaturesOf(Tail(log))

\* C11 (Spec): when findUnique found a row younger than the TTL, search() has
\* resolved with the parsed payload of that row, and made no HTTP request,
\* took no token from the limiter, and called neither delete nor upsert.
C11_FreshHitNoIO ==
    cacheOps.found = "fresh" =>
        /\ pc = "resolved"
        /\ outcome.kind = "resolved"
        /\ cache.present
        /\ outcome.value = ParseFeatures(cache.payload)
        /\ StringifyFeatures(outcome.value) = cache.payload
        /\ httpRequests = 0
        /\ pageLog = <<>>
        /\ granted = 0
        /\ tokensTaken = 0
        /\ tokens = capacity
        /\ cacheOps.deletes = 0
        /\ cacheOps.upserts = 0

\* a row one ms younger than the TTL was served
C11_Witness ==
    /\ cacheOps.found = "fresh"
    /\ pc = "resolved"
    /\ now - cache.createdAt = TtlMs - 1
    /\ Len(outcome.value) = MaxPageLen
    /\ outcome.value[1].listing_id = 1

\* C12 (Spec): when findUnique found a row whose age is not below the TTL,
\* delete was called exactly once, and a search that resolved made a fresh
\* fetch and returns the listings of the pages fetched, none of them from
\* the row found.
C12_StaleNeverServed ==
    cacheOps.found = "stale" =>
        /\ pc # "cacheLookup"
        /\ cacheOps.deletes = 1
        /\ pc = "failed" => outcome.error.kind = "cache store"
        /\ cache.present => (pc \in {"cacheDelete", "failed"} \/ cacheOps.upserts = 1)
        /\ outcome.kind = "resolved" =>
              /\ Len(pageLog) > 0
              /\ pageLog[1].done
              /\ outcome.value = FeaturesOf(pageLog)
              /\ \A i \in 1..Len(outcome.value) : outcome.value[i].listing_id > PageStride

\* an expired row was deleted, and the listings fetched are returned and stored
C12_Witness ==
    /\ cacheOps.found = "stale"
    /\ cacheOps.deletes = 1
    /\ pc = "resolved"
    /\ Len(outcome.value) > 0
    /\ cache.present
    /\ cache.payload = StringifyFeatures(outcome.value)

\* C13 (Spec): a cache row never holds an empty array; upsert is called only
\* with listings collected, and a search whose fetch collected no listing
\* resolves without an upsert and leaves no row.
C13_NeverCachesEmpty ==
    /\ cache.present => Len(cache.payload) > 0
    /\ cacheOps.upserts > 0 => Len(allFeatures) > 0
    /\ cacheOps.upserts <= 1
    /\ (pc = "resolved" /\ cacheOps.found # "fresh" /\ Len(outcome.value) = 0) =>
          /\ cacheOps.upserts = 0
          /\ ~cache.present

\* an expired row was deleted, the upstream had no listing, nothing is stored
C13_Witness ==
    /\ pc = "resolved"
    /\ cacheOps.found = "stale"
    /\ Len(pageLog) = 1
    /\ pageLog[1].done
    /\ outcome.value = <<>>
    /\ cacheOps.upserts = 0
    /\ ~cache.present

\* C14 (Spec): search() never rejects with the error of a failed call on the
\* cache store (findUnique, delete or upsert).
C14_CacheFailureIsMiss ==
    outcome.kind = "rejected" => outcome.error.kind # "cache store"

\* C15 (Spec): search() called with a query object the schema does not accept
\* has rejected with the validation error, and has called neither findUnique
\* nor waitForToken nor fetch; the valid query is not rejected so.
C15_InvalidBeforeIO ==
    /\ (params \in InvalidQueries /\ pc # "idle") =>
          /\ pc = "failed"
          /\ outcome.kind = "rejected"
          /\ outcome.error.kind = "Invalid search parameters"
          /\ cacheOps = NoCacheOps
          /\ granted = 0
          /\ tokens = capacity
          /\ httpRequests = 0
          /\ pageLog = <<>>
    /\ params = ValidQuery => outcome.error.kind # "Invalid search parameters"

\* a bbox of three numbers was rejected
C15_Witness ==
    /\ pc = "failed"
    /\ Get(params, "bbox") = ShortBboxValue
    /\ outcome.kind = "rejected"
    /\ outcome.error = InvalidSearchParameters

\* C16 (SpecHash): two query objects with the same key/value pairs have the
\* same digest, whatever the order their keys were inserted in.
C16_KeyOrderIndependent ==
    \A a, b \in digests :
        SameParameters(a.query, b.query) => a.digest = b.digest

\* C17 (Spec): a search that resolved after a cache miss returns the
\* normalized listings of the pages fetched, page 1 first, each page's
\* listings in the order of its body.
C17_ConcatenatedInPageOrder ==
    (pc = "resolved" /\ cacheOps.found # "fresh") =>
        /\ outcome.kind = "resolved"
        /\ outcome.value = FeaturesOf(pageLog)
        /\ \A i \in 1..Len(pageLog) : pageLog[i].page = i /\ pageLog[i].done
        /\ \A i, j \in 1..Len(outcome.value) :
              i < j => outcome.value[i].listing_id < outcome.value[j].listing_id

\* two full pages were returned, the listings of page 1 before those of page 2
C17_Witness ==
    /\ pc = "resolved"
    /\ Len(pageLog) = 2
    /\ Len(outcome.value) = 2 * MaxPageLen
    /\ outcome.value[1].listing_id = PageStride + 1
    /\ outcome.value[2 * MaxPageLen].listing_id = 2 * PageStride + MaxPageLen

\* C18 (Spec): the pages requested are 1, 2, 3, ... in this order; when the
\* first request of a page is issued the fetch of every page before it has
\* resolved; only the current page is ever requested.
C18_SequentialPages ==
    /\ \A i \in 1..Len(pageLog) : pageLog[i].page = i
    /\ \A i \in 1..(Len(pageLog) - 1) : pageLog[i].done
    /\ currentPage \in {Len(pageLog), Len(pageLog) + 1}
    /\ currentPage = Len(pageLog) + 1 => (httpRequests = 0 /\ pc # "awaitingResponse")
    /\ pc = "awaitingResponse" => ~pageLog[Len(pageLog)].done

\* page 2 is being retried, after page 1 resolved
C18_Witness ==
    /\ Len(pageLog) = 2
    /\ pageLog[1].done
    /\ pageLog[2].page = 2
    /\ pc = "awaitingResponse"
    /\ attempt > 0

\* C19 (Spec): the iterations of the pagination loop, one per page requested,
\* never exceed totalPages.
C19_AtMostTotalPages == Len(pageLog) <= totalPages

\* C20 (SpecRegistry): two getRateLimiter() calls return the same instance
\* exactly when they name the same provider; the registry holds one limiter
\* for each name asked for so far and none for another, constructed by the
\* first call that named it.
C20_OneLimiterPerName ==
    /\ \A i, j \in 1..Len(handles) :
          (handles[i].name = handles[j].name) <=> (handles[i].instance = handles[j].instance)
    /\ \A i \in 1..Len(handles) :
          /\ handles[i].instance <= i
          /\ handles[handles[i].instance].name = handles[i].name
          /\ \E e \in limiters : e.name = handles[i].name /\ e.instance = handles[i].instance
    /\ \A e \in limiters : \E i \in 1..Len(handles) : handles[i].name = e.name
    /\ \A e, f \in limiters : e.name = f.name => e = f

\* two RealtorProvider instances share a limiter no other provider has
C20_Witness ==
    /\ Len(handles) >= 3
    /\ handles[1].caller = "RealtorProvider"
    /\ handles[2].name = "CountyTaxSale"
    /\ handles[3].caller = "RealtorProvider"
    /\ handles[1].instance = handles[3].instance
    /\ handles[1].instance # handles[2].instance
    /\ Cardinality(limiters) = 2

\* the 429 that fetchPage is sleeping on, or has slept on, carried Retry-After
AfterRetryAfter ==
    /\ ~IsException(lastAnswer)
    /\ lastAnswer.status = 429
    /\ lastAnswer.retryAfter.kind # "none"
\* the wait the header asks for: n seconds, or the seconds until the date
\* rounded up and floored at 0, in milliseconds
HeaderWaitIs(w) ==
    /\ lastAnswer.retryAfter.kind = "seconds" => w = lastAnswer.retryAfter.value * MsPerSecond
    /\ lastAnswer.retryAfter.kind = "date" =>
          /\ w % MsPerSecond = 0
          /\ lastAnswer.retryAfter.value <= 0 => w = 0
          /\ lastAnswer.retryAfter.value > 0 =>
                w >= lastAnswer.retryAfter.value /\ w < lastAnswer.retryAfter.value + MsPerSecond

\* C29 (Spec): after a 429 with a Retry-After header and attempts remaining,
\* the sleep is due n * 1000 ms after the answer for a header of n integer
\* seconds (negative for a negative n: the timer is then due at once), and
\* the seconds until the date, rounded up and floored at 0, times 1000 for an
\* HTTP date; the next attempt begins only when the sleep is due.
C29_RetryAfterWait ==
    /\ [][(pc = "awaitingResponse" /\ pc' = "backoff" /\ AfterRetryAfter')
            => (HeaderWaitIs(lastWait)' /\ wakeAt' = now + lastWait' /\ backoffUntil' = wakeAt')]_vars
    /\ [][(pc = "backoff" /\ pc' # "backoff") => now >= wakeAt]_vars
    /\ [](pc = "backoff" => wakeAt = backoffUntil)

\* the attempt after a 429 with an HTTP date one millisecond ahead is in
\* flight, a whole second having been waited for
C29_Witness ==
    /\ pc = "awaitingResponse"
    /\ attempt = 1
    /\ AfterRetryAfter
    /\ lastAnswer.retryAfter = HttpDate(1)
    /\ lastWait = MsPerSecond
    /\ now >= backoffUntil

\* C29 as stated: the wait computed from a Retry-After header is never
\* negative.
C29_NeverNegative ==
    (pc = "backoff" /\ AfterRetryAfter) => (HeaderWaitIs(lastWait) /\ lastWait >= 0)

\* the page requested last was answered with an empty array of listings
LastPageEmpty ==
    /\ Len(pageLog) > 0
    /\ pageLog[Len(pageLog)].done
    /\ pageLog[Len(pageLog)].listings = <<>>

\* C26 (Spec): no page is requested after a page whose array of listings was
\* empty; the search that met the empty page is not rejected for it, and when
\* it has resolved it has returned the listings of the pages before, none if
\* the empty page was page 1.
C26_EmptyPageStops ==
    /\ \A i \in 1..(Len(pageLog) - 1) : pageLog[i].done /\ pageLog[i].listings # <<>>
    /\ LastPageEmpty =>
          /\ pc \in {"fetchResolved", "persisting", "resolved", "failed"}
          /\ pc = "failed" => outcome.error = CacheError("upsert")
          /\ pc = "resolved" =>
                /\ outcome.kind = "resolved"
                /\ outcome.value = FeaturesOf(SubSeq(pageLog, 1, Len(pageLog) - 1))
                /\ Len(outcome.value) = Len(allFeatures)
          /\ (Len(pageLog) = 1 /\ pc # "fetchResolved") =>
                (pc = "resolved" /\ outcome.value = <<>> /\ cacheOps.upserts = 0)

\* page 1 was full, more pages were announced, page 2 came back empty: the
\* search returned the listings of page 1
C26_Witness ==
    /\ pc = "resolved"
    /\ Len(pageLog) = 2
    /\ LastPageEmpty
    /\ totalPages > 1
    /\ Len(outcome.value) = MaxPageLen
    /\ httpRequests >= 1

\* C27 (Spec): while the page requested last, page k > 1, has no answer that
\* was accepted, nothing was returned and nothing written to the cache; when
\* its fetch has failed no further page is requested and search() rejects
\* with the error of that fetch, returning none of the listings collected.
C27_LaterPageFailure ==
    /\ (Len(pageLog) > 1 /\ ~pageLog[Len(pageLog)].done) =>
          /\ outcome.kind # "resolved"
          /\ pc # "resolved"
          /\ cacheOps.upserts = 0
          /\ ~cache.present
    /\ (pc \in {"fetchRejected", "rejected"} /\ currentPage > 1) =>
          /\ Len(pageLog) = currentPage
          /\ ~pageLog[Len(pageLog)].done
          /\ lastError # NoError
          /\ pc = "rejected" => outcome = Rejected(lastError)
          /\ pc = "fetchRejected" => outcome.kind = "pending"

\* page 1 gave a full page and announced more, page 2 failed on every
\* attempt: search() rejected, the listings of page 1 are held by nobody
C27_Witness ==
    /\ pc = "rejected"
    /\ Len(pageLog) = 2
    /\ totalPages > 1
    /\ Len(allFeatures) = MaxPageLen
    /\ outcome.kind = "rejected"
    /\ outcome.value = <<>>
    /\ cacheOps.upserts = 0
    /\ attempt = maxRetries
    /\ maxRetries > 0

\* C21 as stated (SpecLimiter): the bucket refills at maxCallsPerMin / 60000
\* tokens per millisecond, so the tokens in the bucket and the tokens granted
\* by time now never exceed capacity + maxCallsPerMin * now / 60000.
C21_RefillFromMaxCallsPerMin ==
    (tokens + granted * RefillRateDen) * (60 * MsPerSecond)
        <= capacity * (60 * MsPerSecond) + MaxCallsPerMin * now * RefillRateDen

\* the first non-empty array among the candidate keys, in their order
FirstNonEmpty(body) ==
    IF body.properties.present /\ body.properties.items # <<>> THEN body.properties.items
    ELSE IF body.listings.present /\ body.listings.items # <<>> THEN body.listings.items
    ELSE IF body.results.present /\ body.results.items # <<>> THEN body.results.items
    ELSE <<>>

\* C25 as stated (SpecPage): the array of listings taken from a page body is
\* the first non-empty array among properties, listings, results.
C25_FirstNonEmptyKey ==
    pageCall.done => pageCall.listings = FirstNonEmpty(pageCall.body)

\* C28 (SpecPage): the features made of a page are the listings of its array
\* whose normalization does not throw, each normalized, in the order of the
\* array; a listing whose normalization throws costs the page only itself.
C28_ThrowingListingDropped ==
    pageCall.done =>
        LET kept == SelectSeq(pageCall.listings, LAMBDA l : l # NullListing)
        IN  /\ Len(pageCall.features) = Len(kept)
            /\ \A i \in 1..Len(kept) : pageCall.features[i] = TransformListing(kept[i])

\* the first listing of a page of two threw, the second one was kept
C28_Witness ==
    /\ pageCall.done
    /\ Len(pageCall.listings) = 2
    /\ pageCall.listings[1] = NullListing
    /\ Len(pageCall.features) = 1
    /\ pageCall.features[1] = TransformListing(pageCall.listings[2])

\* C30 as stated (SpecBackoff): no sleep of the retry loop exceeds 8200 ms,
\* after a 429 or after an exception, whatever the attempt number.
C30_SleepWithinCap ==
    \A i \in 1..Len(backoffLog) : backoffLog[i].delay <= BackoffCapMs + JitterMs

\* the providers were called and every one of them has settled
ProvidersSettled ==
    \A p \in Providers : service.prov[p].state \in {"fulfilled", "rejected"}
\* the externalIds of the properties a fulfilled provider handed back that
\* pass the schema
FulfilledIds ==
    UNION {{service.prov[p].value[i].externalId :
              i \in {k \in 1..Len(service.prov[p].value) :
                        service.prov[p].value[k].valid
                        /\ service.prov[p].value[k].externalId # NoExternalId}} :
           p \in {q \in Providers : service.prov[q].state = "fulfilled"}}

C23_ThresholdDecidesProviders ==
    service.cachedFresh # Unknown =>
        /\ service.cachedFresh >= CacheThreshold
              => \A p \in Providers : service.prov[p].state = "idle"
        /\ service.cachedFresh < CacheThreshold
              => \A p \in Providers : service.prov[p].state # "idle"

\* exactly the threshold of fresh rows: returned from the database with no
\* provider called
C23_Witness ==
    /\ service.pc = "returned"
    /\ service.cachedFresh = CacheThreshold
    /\ \A p \in Providers : service.prov[p].state = "idle"
    /\ service.result.fresh = CacheThreshold

C36_NoLocalityResolvesEmpty ==
    params \in NoLocalityQueries =>
        /\ pc \in {"idle", "cacheLookup", "resolved", "failed"}
        /\ pc = "failed" => outcome.error = CacheError("findUnique")
        /\ httpRequests = 0
        /\ tokensTaken = 0
        /\ granted = 0
        /\ cacheOps.upserts = 0
        /\ pageLog = <<>>
        /\ ~cache.present
        /\ pc = "resolved" => outcome = Resolved(<<>>)

\* a polygon alone: the cache was missed and search() returned []
C36_Witness ==
    /\ params = <<<<"polygon", PolygonValue>>>>
    /\ pc = "resolved"
    /\ cacheOps.found = "absent"
    /\ cacheOps.reads = 1
    /\ outcome = Resolved(<<>>)
    /\ httpRequests = 0

\* C35 (Spec): whatever the answers to its attempts, one fetchPage call has
\* issued at most maxRetries + 1 HTTP requests and taken at most as many
\* tokens; no backoff sleep follows the attempt numbered maxRetries, and a
\* call that failed did so on that attempt, with a token taken for each
\* request and none after the last answer.
C35_BoundedAttempts ==
    /\ attempt <= maxRetries
    /\ httpRequests <= maxRetries + 1
    /\ tokensTaken <= maxRetries + 1
    /\ pc = "backoff" => attempt < maxRetries
    /\ pc \in {"fetchRejected", "rejected"} =>
          /\ attempt = maxRetries
          /\ httpRequests = maxRetries + 1
          /\ answered = httpRequests
          /\ tokensTaken = httpRequests
          /\ Kind(lastAnswer) # "ok"

\* three attempts answered by an exception, a 429 and an error status: the
\* call failed after the third request
C35_Witness ==
    /\ pc = "fetchRejected"
    /\ maxRetries = 2
    /\ kindsSeen = {"exception", "429", "status"}
    /\ httpRequests = 3
    /\ tokensTaken = 3

\* C39 (Spec): when a search that found an expired row and deleted it has
\* ended with its fetch failed or with no listing, the store holds no row
\* for the hash.
C39_DeletedRowStaysDeleted ==
    (cacheOps.found = "stale"
     /\ (pc = "rejected" \/ (pc = "resolved" /\ Len(outcome.value) = 0))) =>
        /\ cacheOps.deletes = 1
        /\ cacheOps.upserts = 0
        /\ ~cache.present

\* the expired row was deleted, every attempt of the fetch failed, search()
\* rejected and the store is empty
C39_Witness ==
    /\ cacheOps.found = "stale"
    /\ cacheOps.deletes = 1
    /\ pc = "rejected"
    /\ outcome.kind = "rejected"
    /\ httpRequests = maxRetries + 1
    /\ ~cache.present

\* the externalIds of a sequence of properties, in its order
IdsOf(properties) == [i \in 1..Len(properties) |-> properties[i].externalId]

\* C33 (SpecService): the batch handed to createManyProperties holds no two
\* properties with the same externalId, and the one it holds for an
\* externalId is the first with that externalId among the validated results
\* of the fulfilled providers, taken in the order of the providers.
C33_OneRecordPerExternalId ==
    service.pc = "upsert" =>
        LET fetched == CollectFulfilled(service.prov)
        IN  /\ \A i, j \in 1..Len(service.batch) :
                  i # j => service.batch[i].externalId # service.batch[j].externalId
            /\ \A i \in 1..Len(service.batch) :
                  \E k \in 1..Len(fetched) :
                      /\ fetched[k] = service.batch[i]
                      /\ \A h \in 1..(k - 1) : fetched[h].externalId # fetched[k].externalId
            /\ \A k \in 1..Len(fetched) :
                  fetched[k].externalId # NoExternalId
                      => \E i \in 1..Len(service.batch) :
                            service.batch[i].externalId = fetched[k].externalId

\* the first and the last provider returned the same externalId at two
\* places: the batch holds the property of the first provider only
C33_Witness ==
    /\ service.pc = "upsert"
    /\ service.prov[1].state = "fulfilled"
    /\ service.prov[NumProviders].state = "fulfilled"
    /\ IdsOf(service.prov[1].value) = <<1>>
    /\ IdsOf(service.prov[NumProviders].value) = <<1>>
    /\ service.prov[1].value[1].place # service.prov[NumProviders].value[1].place
    /\ service.prov[1].value[1].valid
    /\ service.prov[NumProviders].value[1].valid
    /\ service.batch = service.prov[1].value

FirstPresent(a, b, c) ==
    IF a.t # "undefined" THEN a ELSE IF b.t # "undefined" THEN b ELSE c

\* C31 as stated (SpecTransform): the geometry is one ring of 5 pairs, the
\* last equal to the first, drawn around the coordinates taken from
\* latitude/longitude if they are there, else lat/lon, else
\* location.address.coordinate.
C31_RingAroundCoordinates ==
    normalized.done =>
        LET l == normalized.listing
            lat == FirstPresent(l.latitude, l.lat, l.coordinate.lat)
            lon == FirstPresent(l.longitude, l.lon, l.coordinate.lon)
            ring == normalized.feature.ring
        IN  /\ Len(ring) = 5
            /\ ring[1] = ring[5]
            /\ (lat.t = "number" /\ lon.t = "number") =>
                  /\ ring[1] = <<JsNumber(lon.v - dUnits, TRUE), JsNumber(lat.v - dUnits, TRUE)>>
                  /\ ring[3] = <<JsNumber(lon.v + dUnits, TRUE), JsNumber(lat.v + dUnits, TRUE)>>

\* C32 as stated (SpecTransform): properties.price is a non-negative
\* integer, the floor of a price that is a number.
C32_PriceNonNegativeInteger ==
    normalized.done =>
        /\ normalized.feature.price.t = "number"
        /\ ~normalized.feature.price.nan
        /\ normalized.feature.price.whole
        /\ normalized.feature.price.v >= 0
        /\ (normalized.listing.price.t = "number" /\ IsTruthy(normalized.listing.price))
              => normalized.feature.price.v = normalized.listing.price.v

\* C37 (SpecRace): the row of the hash, once a search has written it, holds
\* the list that search returned: the listings of its own pages 1, 2, ... in
\* this order, and of no other search.
C37_PayloadOfOneSearch ==
    (race.row.present /\ race.row.by # 0) =>
        /\ race.s[race.row.by].pc = "resolved"
        /\ race.s[race.row.by].outcome.kind = "resolved"
        /\ race.row.payload = race.s[race.row.by].outcome.value
        /\ Len(race.row.payload) = race.s[race.row.by].page
        /\ \A i \in 1..Len(race.row.payload) :
              race.row.payload[i] = [by |-> race.row.by, page |-> i]

\* two searches overlapped from the expired row on, both fetched two pages,
\* both wrote: the row holds the two pages of the one that wrote last
C37_Witness ==
    /\ race.row.present
    /\ race.row.by = 1
    /\ Len(race.row.payload) = 2
    /\ race.s[1].pc = "resolved"
    /\ race.s[2].pc = "resolved"
    /\ race.s[2].outcome.value = <<[by |-> 2, page |-> 1], [by |-> 2, page |-> 2]>>
    /\ race.deleted = 1

\* C38 as stated (SpecRace): the expired row is deleted at most once, and no
\* search fails for the row having been deleted by another.
C38_DeleteOnceNobodyFails ==
    /\ race.deleted <= 1
    /\ \A x \in Searches :
          race.s[x].outcome.kind = "rejected" => race.s[x].outcome.error # "delete"

====
